---- MODULE Spec2Model ----
(***************************************************************************)
(* GenericHashContainer<sizeType, hashType>: a fixed-capacity hash index.  *)
(* Unsigned integers are little-endian byte tuples (byte 1 is the least    *)
(* significant), so that 64-bit hashes and the 32/64-bit slot widths keep  *)
(* their exact width; small values are converted to Int where the code     *)
(* uses them as array indices.                                             *)
(***************************************************************************)
EXTENDS Integers, Sequences, FiniteSets, TLC

VARIABLES sizeType, hashType, NDEBUG, status,
          m_bucketCount, m_nodeCount, m_bucketList, m_nodeList,
          entry, linkOrder, lastOp, copy, twin

vars == <<sizeType, hashType, NDEBUG, status,
          m_bucketCount, m_nodeCount, m_bucketList, m_nodeList,
          entry, linkOrder, lastOp, copy, twin>>

(***************************************************************************)
(* Bounds of the model.                                                    *)
(***************************************************************************)
\* largest entry count whose container is operated on
MaxNodes == 3

(***************************************************************************)
(* Fixed-width unsigned arithmetic.                                        *)
(***************************************************************************)
\* sizeof(size_t), fixed by the static_assert of the class
SizeT == 8

Zero(k) == [i \in 1..k |-> 0]

\* std::numeric_limits<T>::max() of a k-byte unsigned type
Max(k) == [i \in 1..k |-> 255]

\* static_cast of an unsigned value to a k-byte unsigned type
Cast(x, k) == [i \in 1..k |-> IF i <= Len(x) THEN x[i] ELSE 0]

\* a small natural number as a k-byte unsigned value
FromNat(n, k) ==
  [i \in 1..k |-> IF i = 1 THEN n % 256
                  ELSE IF i = 2 THEN (n \div 256) % 256
                  ELSE IF i = 3 THEN (n \div 65536) % 256
                  ELSE 0]

\* TRUE when the value fits the three low bytes
Small(x) == \A i \in 1..Len(x) : i > 3 => x[i] = 0

\* the Int value of a small unsigned value
Val(x) ==
  (IF Len(x) >= 1 THEN x[1] ELSE 0)
  + (IF Len(x) >= 2 THEN 256 * x[2] ELSE 0)
  + (IF Len(x) >= 3 THEN 65536 * x[3] ELSE 0)

\* x >> (8 * n) on a size_t
ShiftRightBytes(x, n) == [i \in 1..Len(x) |-> IF i + n <= Len(x) THEN x[i + n] ELSE 0]

RECURSIVE RemTop(_, _, _)
\* the remainder modulo d of the bytes i..Len(x) of x (long division, top down)
RemTop(x, d, i) ==
  IF i > Len(x) THEN 0 ELSE (RemTop(x, d, i + 1) * 256 + x[i]) % d

\* x % d for an unsigned x and a small positive Int d
Rem(x, d) == RemTop(x, d, 1)

\* x / d for an unsigned x and a small positive Int d
Div(x, d) == [i \in 1..Len(x) |-> (RemTop(x, d, i + 1) * 256 + x[i]) \div d]

RECURSIVE Carry(_, _, _)
\* the carry out of byte i of k * x
Carry(x, k, i) ==
  IF i = 0 THEN 0 ELSE (x[i] * k + Carry(x, k, i - 1)) \div 256

\* k * x for an unsigned x and a small Int k, modulo the width of x
Mul(x, k) == [i \in 1..Len(x) |-> (x[i] * k + Carry(x, k, i - 1)) % 256]

RECURSIVE GeqFrom(_, _, _)
GeqFrom(a, b, i) ==
  IF i = 0 THEN TRUE
  ELSE IF a[i] # b[i] THEN a[i] > b[i]
  ELSE GeqFrom(a, b, i - 1)

\* a >= b for two unsigned values of the same width
Geq(a, b) == GeqFrom(a, b, Len(a))

(***************************************************************************)
(* The container as a value: the four members of the object.               *)
(***************************************************************************)
This ==
  [m_bucketCount |-> m_bucketCount, m_nodeCount |-> m_nodeCount,
   m_bucketList |-> m_bucketList, m_nodeList |-> m_nodeList]

\* sizeLimits::max(): "no link" / "empty bucket"
SENTINEL == Max(sizeType)

\* hashLimits::max()
HASHMAX == Max(hashType)

\* the highest part of the hash that fits into hashType
high(hash) == Cast(ShiftRightBytes(hash, SizeT - hashType), hashType)

\* mutant of low: the hash is not cut to sizeType
lowUncut(hash) == hash

\* the lowest part of the hash that fits into sizeType
low(hash) == Cast(hash, sizeType)

\* index into an array from a sizeType value
Idx(x) == Val(x)

(***************************************************************************)
(* Arrays.  An array too large to enumerate is kept as its size and the    *)
(* element every cell holds (which is all a fresh array is).               *)
(***************************************************************************)
\* largest array kept cell by cell
MaxArray == 16

Enumerated(count) == Small(count) /\ Val(count) <= MaxArray

\* std::make_unique<T[]>(count): count value-initialised (zero) cells
MakeArray(count, elem) ==
  IF Enumerated(count)
  THEN [i \in 0..(Val(count) - 1) |-> elem]
  ELSE [size |-> count, fill |-> elem]

\* std::memset over the whole array
MemsetArray(arr, count, elem) ==
  IF Enumerated(count)
  THEN [i \in DOMAIN arr |-> elem]
  ELSE [size |-> count, fill |-> elem]

ZeroBucket == [first |-> Zero(sizeType)]
ZeroNode == [hash |-> Zero(hashType), next |-> Zero(sizeType)]
FFBucket == [first |-> SENTINEL]
FFNode == [hash |-> HASHMAX, next |-> SENTINEL]

(***************************************************************************)
(* insert / remove / clear                                                 *)
(***************************************************************************)
\* the two assertions of insert
insertAsserts(c, value) ==
  /\ c.m_nodeList[Idx(value)].next = SENTINEL
  /\ c.m_nodeList[Idx(value)].hash = HASHMAX

\* mutant of insert: the new node goes behind the head of a non-empty chain
insertBehindHead(c, hash, value) ==
  LET bucket == Rem(low(hash), Val(c.m_bucketCount))
      first == c.m_bucketList[bucket].first
  IN IF first = SENTINEL
     THEN [c EXCEPT !.m_nodeList[Idx(value)] = [hash |-> high(hash), next |-> first],
                    !.m_bucketList[bucket] = [first |-> value]]
     ELSE [c EXCEPT !.m_nodeList[Idx(value)] =
                       [hash |-> high(hash), next |-> c.m_nodeList[Idx(first)].next],
                    !.m_nodeList[Idx(first)].next = value]

\* mutant of insert: the old head of the bucket is not kept as next
insertDropsChain(c, hash, value) ==
  LET bucket == Rem(low(hash), Val(c.m_bucketCount))
  IN [c EXCEPT !.m_nodeList[Idx(value)] = [hash |-> high(hash), next |-> SENTINEL],
               !.m_bucketList[bucket] = [first |-> value]]

insert(c, hash, value) ==
  LET bucket == Rem(low(hash), Val(c.m_bucketCount))
      first == c.m_bucketList[bucket].first
  IN [c EXCEPT !.m_nodeList[Idx(value)] = [hash |-> high(hash), next |-> first],
               !.m_bucketList[bucket] = [first |-> value]]

\* mutant of removePoisonBuilt: the fragment is not overwritten
removePoisonNextOnly(ndebug, c, value) ==
  IF ndebug THEN c
  ELSE [c EXCEPT !.m_nodeList[Idx(value)].next = SENTINEL]

\* the #ifndef NDEBUG block of remove, as compiled with NDEBUG = ndebug
removePoisonBuilt(ndebug, c, value) ==
  IF ndebug THEN c
  ELSE [c EXCEPT !.m_nodeList[Idx(value)] = [hash |-> HASHMAX, next |-> SENTINEL]]

\* the #ifndef NDEBUG block of remove
removePoison(c, value) == removePoisonBuilt(NDEBUG, c, value)

RECURSIVE removeScanCut(_, _, _, _)
\* mutant of removeScan: the predecessor is cut off instead of relinked
removeScanCut(c, value, current, fuel) ==
  IF current = SENTINEL THEN [c |-> c, hang |-> FALSE]
  ELSE IF fuel = 0 THEN [c |-> c, hang |-> TRUE]
  ELSE LET c1 == IF c.m_nodeList[Idx(current)].next = value
                 THEN [c EXCEPT !.m_nodeList[Idx(current)].next = SENTINEL]
                 ELSE c
       IN removeScanCut(c1, value, c1.m_nodeList[Idx(current)].next, fuel - 1)

RECURSIVE removeScan(_, _, _, _)
\* the while loop of remove; fuel 0 means the loop has not ended
removeScan(c, value, current, fuel) ==
  IF current = SENTINEL THEN [c |-> c, hang |-> FALSE]
  ELSE IF fuel = 0 THEN [c |-> c, hang |-> TRUE]
  ELSE LET c1 == IF c.m_nodeList[Idx(current)].next = value
                 THEN [c EXCEPT !.m_nodeList[Idx(current)].next =
                                   c.m_nodeList[Idx(value)].next]
                 ELSE c
       IN removeScan(c1, value, c1.m_nodeList[Idx(current)].next, fuel - 1)

\* mutant of remove: nothing is unlinked
removeUnlinksNothing(c, hash, value) ==
  [c |-> removePoison(c, value), hang |-> FALSE]

\* remove as compiled with NDEBUG = ndebug,
\* as [c |-> the container afterwards, hang |-> the scan never ends]
removeBuilt(ndebug, c, hash, value) ==
  IF c.m_nodeList[Idx(value)].hash # high(hash)
  THEN [c |-> c, hang |-> FALSE]
  ELSE LET bucket == Rem(low(hash), Val(c.m_bucketCount))
           current == c.m_bucketList[bucket].first
       IN IF current = value
          THEN [c |-> removePoisonBuilt(ndebug,
                        [c EXCEPT !.m_bucketList[bucket] =
                                     [first |-> c.m_nodeList[Idx(value)].next]],
                        value),
                hang |-> FALSE]
          ELSE LET r == removeScan(c, value, current, Val(c.m_nodeCount) + 1)
               IN [c |-> removePoisonBuilt(ndebug, r.c, value), hang |-> r.hang]

\* remove of this build
remove(c, hash, value) == removeBuilt(NDEBUG, c, hash, value)

\* mutant of clear: the memset of the bucket array is missing
clearNodesOnly(c) ==
  [c EXCEPT !.m_nodeList = IF NDEBUG THEN @
                           ELSE MemsetArray(@, c.m_nodeCount, FFNode)]

\* clear as compiled with NDEBUG = ndebug
clearBuilt(ndebug, c) ==
  [c EXCEPT !.m_nodeList = IF ndebug THEN @
                           ELSE MemsetArray(@, c.m_nodeCount, FFNode),
            !.m_bucketList = MemsetArray(@, c.m_bucketCount, FFBucket)]

\* clear of this build
clear(c) == clearBuilt(NDEBUG, c)

(***************************************************************************)
(* Lookup: find, findNext and the SearchIterator                           *)
(***************************************************************************)
\* the position of a walk that never returns (a cyclic chain)
HANG == <<-1>>

\* mutant of findNextFrom: the fragment is not compared
findNextAnyHash(c, hash, current, fuel) == current

RECURSIVE findNextFrom(_, _, _, _)
findNextFrom(c, hash, current, fuel) ==
  IF current = SENTINEL THEN SENTINEL
  ELSE IF fuel = 0 THEN HANG
  ELSE IF c.m_nodeList[Idx(current)].hash = hash THEN current
  ELSE findNextFrom(c, hash, c.m_nodeList[Idx(current)].next, fuel - 1)

\* findNext(hashType hash, sizeType current)
findNext(c, hash, current) ==
  findNextFrom(c, hash, current, Val(c.m_nodeCount) + 1)

\* findNext(sizeType current)
findNextOf(c, current) ==
  findNext(c, c.m_nodeList[Idx(current)].hash, c.m_nodeList[Idx(current)].next)

\* find(hashType hash, sizeType pos): the position of the SearchIterator
findAt(c, hash, pos) == findNext(c, hash, c.m_bucketList[Idx(pos)].first)

\* find(size_t hash)
find(c, hash) ==
  findAt(c, high(hash), FromNat(Rem(low(hash), Val(c.m_bucketCount)), sizeType))

\* AbstractIterator::operator bool
Valid(pos) == pos # SENTINEL

RECURSIVE searchWalk(_, _, _)
\* the positions a SearchIterator takes: *it, then ++it while it is valid
searchWalk(c, pos, fuel) ==
  IF ~Valid(pos) THEN <<>>
  ELSE IF pos = HANG \/ fuel = 0 THEN <<HANG>>
  ELSE <<pos>> \o searchWalk(c, findNextOf(c, pos), fuel - 1)

(***************************************************************************)
(* Two-phase insertion                                                     *)
(***************************************************************************)
emplaceAsserts(c, value) ==
  /\ value # SENTINEL
  /\ c.m_nodeList[Idx(value)].next = SENTINEL

\* mutant of emplace: the stashed bucket index is always 0
emplaceBucketZero(c, hash, value) ==
  [c EXCEPT !.m_nodeList[Idx(value)] =
     [hash |-> high(hash), next |-> Zero(sizeType)]]

\* mutant of emplace: the low instead of the high part is stored as fragment
emplaceLowFragment(c, hash, value) ==
  [c EXCEPT !.m_nodeList[Idx(value)] =
     [hash |-> Cast(hash, hashType),
      next |-> FromNat(Rem(low(hash), Val(c.m_bucketCount)), sizeType)]]

\* mutant of emplace: the node is linked at once
emplaceLinks(c, hash, value) ==
  LET bucket == Rem(low(hash), Val(c.m_bucketCount))
  IN [c EXCEPT !.m_nodeList[Idx(value)] =
                  [hash |-> high(hash), next |-> c.m_bucketList[bucket].first],
               !.m_bucketList[bucket] = [first |-> value]]

emplace(c, hash, value) ==
  [c EXCEPT !.m_nodeList[Idx(value)] =
     [hash |-> high(hash),
      next |-> FromNat(Rem(low(hash), Val(c.m_bucketCount)), sizeType)]]

\* the assertions of insertEmplaced and of findEmplaced
emplacedAsserts(c, value) ==
  /\ value # SENTINEL
  /\ c.m_nodeList[Idx(value)].next # SENTINEL

\* mutant of insertEmplaced: the node is linked to itself
insertEmplacedSelfLink(c, value) ==
  LET bucket == Idx(c.m_nodeList[Idx(value)].next)
  IN [c EXCEPT !.m_nodeList[Idx(value)].next = value,
               !.m_bucketList[bucket] = [first |-> value]]

insertEmplaced(c, value) ==
  LET bucket == Idx(c.m_nodeList[Idx(value)].next)
      first == c.m_bucketList[bucket].first
  IN [c EXCEPT !.m_nodeList[Idx(value)].next = first,
               !.m_bucketList[bucket] = [first |-> value]]

findEmplaced(c, pos) ==
  findAt(c, c.m_nodeList[Idx(pos)].hash, c.m_nodeList[Idx(pos)].next)

(***************************************************************************)
(* Full enumeration: Iterator and LocalIterator, as [pos, bucket]          *)
(***************************************************************************)
Iterator(pos, bucket) == [pos |-> pos, bucket |-> bucket]

end(c) == Iterator(SENTINEL, 0)

RECURSIVE beginFrom(_, _)
beginFrom(c, bucket) ==
  IF c.m_bucketList[bucket].first = SENTINEL
  THEN IF bucket + 1 = Val(c.m_bucketCount) THEN end(c)
       ELSE beginFrom(c, bucket + 1)
  ELSE Iterator(c.m_bucketList[bucket].first, bucket)

\* mutant of begin: the scan starts behind the first bucket
beginSkipsBucketZero(c) ==
  beginFrom(c, IF Val(c.m_bucketCount) > 1 THEN 1 ELSE 0)

begin(c) == beginFrom(c, 0)

localBegin(c, index) == Iterator(c.m_bucketList[index].first, index)

localEnd(c) == Iterator(SENTINEL, 0)

RECURSIVE nextBucket(_, _)
\* the while (++bucket != m_bucketCount) loop of nextElement, bucket already incremented
nextBucket(c, bucket) ==
  IF bucket = Val(c.m_bucketCount) THEN Iterator(SENTINEL, bucket)
  ELSE IF c.m_bucketList[bucket].first # SENTINEL
       THEN Iterator(c.m_bucketList[bucket].first, bucket)
  ELSE nextBucket(c, bucket + 1)

\* mutant of nextElement: the cursor ends with the chain of its bucket
nextElementSameBucket(c, current, bucket) ==
  Iterator(c.m_nodeList[Idx(current)].next, bucket)

\* nextElement(current, bucket): the new position and the bucket written back
nextElement(c, current, bucket) ==
  IF c.m_nodeList[Idx(current)].next # SENTINEL
  THEN Iterator(c.m_nodeList[Idx(current)].next, bucket)
  ELSE nextBucket(c, bucket + 1)

\* Iterator::operator++
IteratorInc(c, it) == nextElement(c, it.pos, it.bucket)

\* mutant of LocalIteratorInc: the bucket is not compared
LocalIteratorIncAnyBucket(c, it) == IteratorInc(c, it)

\* LocalIterator::operator++
LocalIteratorInc(c, it) ==
  LET n == IteratorInc(c, it)
  IN IF n.bucket # it.bucket THEN Iterator(SENTINEL, n.bucket) ELSE n

RECURSIVE globalWalk(_, _, _)
\* the positions an Iterator takes until it is invalid
globalWalk(c, it, fuel) ==
  IF ~Valid(it.pos) THEN <<>>
  ELSE IF fuel = 0 THEN <<HANG>>
  ELSE <<it.pos>> \o globalWalk(c, IteratorInc(c, it), fuel - 1)

RECURSIVE localWalk(_, _, _)
\* the positions a LocalIterator takes until it is invalid
localWalk(c, it, fuel) ==
  IF ~Valid(it.pos) THEN <<>>
  ELSE IF fuel = 0 THEN <<HANG>>
  ELSE <<it.pos>> \o localWalk(c, LocalIteratorInc(c, it), fuel - 1)

(***************************************************************************)
(* Construction                                                            *)
(***************************************************************************)
bucketFactor == 2

\* the value computeBucketCount returns in place of a count when it throws
THROWS == <<-2>>

\* mutant of computeBucketCount: > in place of >=
computeBucketCountGt(entries) ==
  IF Geq(entries, Div(Cast(SENTINEL, SizeT), bucketFactor))
     /\ entries # Div(Cast(SENTINEL, SizeT), bucketFactor)
  THEN THROWS
  ELSE Cast(Mul(entries, bucketFactor), sizeType)

\* mutant of computeBucketCount: the capacity is not checked
computeBucketCountUnchecked(entries) ==
  Cast(Mul(entries, bucketFactor), sizeType)

computeBucketCount(entries) ==
  IF Geq(entries, Div(Cast(SENTINEL, SizeT), bucketFactor))
  THEN THROWS
  ELSE Cast(Mul(entries, bucketFactor), sizeType)

\* sizeof(Bucket)
SizeofBucket == sizeType

\* sizeof(Node): hash, padding up to the alignment of next, next, tail padding
SizeofNode ==
  LET align == IF sizeType > hashType THEN sizeType ELSE hashType
      offNext == ((hashType + sizeType - 1) \div sizeType) * sizeType
  IN ((offNext + sizeType + align - 1) \div align) * align

\* new T[count] cannot be allocated: its size in bytes is no size_t
\* (std::bad_array_new_length); any smaller allocation is taken to succeed
AllocFails(count, elemSize) == Carry(Cast(count, SizeT), elemSize, SizeT) > 0

\* GenericHashContainer(size_t entries) as compiled with NDEBUG = ndebug:
\* [threw |-> "runtime_error", "bad_alloc" or "", c |-> the container when constructed]
ConstructBuilt(ndebug, entries) ==
  LET bc == computeBucketCount(entries)
      nc == Cast(entries, sizeType)
  IN IF bc = THROWS THEN [threw |-> "runtime_error"]
     ELSE IF AllocFails(bc, SizeofBucket) \/ AllocFails(nc, SizeofNode)
     THEN [threw |-> "bad_alloc"]
     ELSE [threw |-> "",
           c |-> clearBuilt(ndebug,
                   [m_bucketCount |-> bc, m_nodeCount |-> nc,
                    m_bucketList |-> MakeArray(bc, ZeroBucket),
                    m_nodeList |-> MakeArray(nc, ZeroNode)])]

\* the constructor of this build
Construct(entries) == ConstructBuilt(NDEBUG, entries)

(***************************************************************************)
(* The state machine.  entry, linkOrder and lastOp are history variables:  *)
(* what the caller did with each slot, the linked slots from the most      *)
(* recently linked to the oldest, and the last call made (for a remove,    *)
(* at = <<place of the slot in its chain, length of that chain>>; for a    *)
(* clear, at[1] = the number of entries that were linked).                 *)
(***************************************************************************)
\* the builds exercised: <<sizeof(sizeType), sizeof(hashType), NDEBUG>>
Builds ==
  {<<1, 1, FALSE>>, <<4, 2, FALSE>>, <<4, 4, FALSE>>, <<8, 4, FALSE>>,
   <<4, 4, TRUE>>}

Hash0 == Zero(SizeT)
Hash1 == FromNat(1, SizeT)
Hash2 == FromNat(2, SizeT)
\* 2^8: above the low byte of the hash, below every fragment
HashWrap == FromNat(256, SizeT)
\* 0xFFFFFFFF00000000: the fragment is hashLimits::max(), the low 32 bits are 0
HashTop == [i \in 1..SizeT |-> IF i > 4 THEN 255 ELSE 0]
\* 2^64 - 1
HashOnes == Max(SizeT)

\* the hashes the mutating calls are made with
Hashes == {Hash0, Hash1, HashTop}

\* the hashes the queries are made with
QueryHashes == Hashes \cup {Hash2, HashWrap, HashOnes}

Free == [st |-> "free", hash |-> <<>>]

Slots == IF Enumerated(m_nodeCount) THEN 0..(Val(m_nodeCount) - 1) ELSE {}

S(slot) == FromNat(slot, sizeType)

Becomes(c) ==
  /\ m_bucketCount' = c.m_bucketCount
  /\ m_nodeCount' = c.m_nodeCount
  /\ m_bucketList' = c.m_bucketList
  /\ m_nodeList' = c.m_nodeList

Config == <<sizeType, hashType, NDEBUG>>
Members == <<m_bucketCount, m_nodeCount, m_bucketList, m_nodeList>>
History == <<entry, linkOrder, lastOp>>

\* a failed assert() of a debug build ends the program
Abort == status' = "abort" /\ UNCHANGED <<Config, Members, History>>

\* no copy of the container has been made
NoCopy == <<>>

\* twin is the container of the same program compiled with NDEBUG (the release
\* build), given every call the container is given; NoTwin when none is kept
NoTwin == <<>>

Remaining(order, slot) == SelectSeq(order, LAMBDA x : x # slot)

RECURSIVE ChainFrom(_, _, _)
\* the slots reached from position pos by following next, as Ints
ChainFrom(c, pos, fuel) ==
  IF pos = SENTINEL THEN <<>>
  ELSE IF fuel = 0 THEN <<-1>>
  ELSE <<Val(pos)>> \o ChainFrom(c, c.m_nodeList[Idx(pos)].next, fuel - 1)

\* the chain of a bucket, head first
Chain(c, bucket) ==
  ChainFrom(c, c.m_bucketList[bucket].first, Val(c.m_nodeCount) + 1)

Buckets == 0..(Val(m_bucketCount) - 1)

\* <<place of slot in its chain, length of that chain>>, <<0, 0>> when in no chain
PlaceOf(slot) ==
  LET hit == {b \in Buckets :
                \E i \in 1..Len(Chain(This, b)) : Chain(This, b)[i] = slot}
  IN IF hit = {} THEN <<0, 0>>
     ELSE LET b == CHOOSE x \in hit : TRUE
              ch == Chain(This, b)
          IN <<CHOOSE i \in 1..Len(ch) : ch[i] = slot, Len(ch)>>

Init ==
  /\ \E b \in Builds : sizeType = b[1] /\ hashType = b[2] /\ NDEBUG = b[3]
  /\ status = "ready"
  /\ \E n \in 1..MaxNodes :
       LET c == Construct(FromNat(n, SizeT)).c
       IN /\ m_bucketCount = c.m_bucketCount
          /\ m_nodeCount = c.m_nodeCount
          /\ m_bucketList = c.m_bucketList
          /\ m_nodeList = c.m_nodeList
          /\ entry = [s \in 0..(n - 1) |-> Free]
  /\ linkOrder = <<>>
  /\ lastOp = [op |-> "create", slot |-> -1, at |-> <<0, 0>>]
  /\ copy = NoCopy
  /\ twin = NoTwin

Insert(hash, slot) ==
  /\ status = "ready"
  /\ entry[slot].st = "free"
  /\ IF ~NDEBUG /\ ~insertAsserts(This, S(slot)) THEN Abort
     ELSE /\ Becomes(insert(This, hash, S(slot)))
          /\ entry' = [entry EXCEPT ![slot] = [st |-> "linked", hash |-> hash]]
          /\ linkOrder' = <<slot>> \o linkOrder
          /\ lastOp' = [op |-> "insert", slot |-> slot, at |-> <<0, 0>>]
          /\ UNCHANGED <<Config, status>>
  /\ UNCHANGED copy
  /\ twin' = IF twin = NoTwin THEN twin ELSE insert(twin, hash, S(slot))

\* remove(hash, slot) of the live entry (hash, slot)
Remove(slot) ==
  /\ status = "ready"
  /\ entry[slot].st = "linked"
  /\ LET r == remove(This, entry[slot].hash, S(slot))
     IN /\ Becomes(r.c)
        /\ status' = IF r.hang THEN "hang" ELSE status
  /\ entry' = [entry EXCEPT ![slot] = Free]
  /\ linkOrder' = Remaining(linkOrder, slot)
  /\ lastOp' = [op |-> "remove", slot |-> slot, at |-> PlaceOf(slot)]
  /\ UNCHANGED Config
  /\ UNCHANGED copy
  /\ twin' = IF twin = NoTwin THEN twin ELSE removeBuilt(TRUE, twin, entry[slot].hash, S(slot)).c

Clear ==
  /\ status = "ready"
  /\ Becomes(clear(This))
  /\ entry' = [s \in DOMAIN entry |-> Free]
  /\ linkOrder' = <<>>
  /\ lastOp' = [op |-> "clear", slot |-> -1, at |-> <<Len(linkOrder), 0>>]
  /\ UNCHANGED <<Config, status>>
  /\ UNCHANGED copy
  /\ twin' = IF twin = NoTwin THEN twin ELSE clearBuilt(TRUE, twin)

Emplace(hash, slot) ==
  /\ status = "ready"
  /\ entry[slot].st = "free"
  /\ IF ~NDEBUG /\ ~emplaceAsserts(This, S(slot)) THEN Abort
     ELSE /\ Becomes(emplace(This, hash, S(slot)))
          /\ entry' = [entry EXCEPT ![slot] = [st |-> "emplaced", hash |-> hash]]
          /\ lastOp' = [op |-> "emplace", slot |-> slot, at |-> <<0, 0>>]
          /\ UNCHANGED <<Config, status, linkOrder>>
  /\ UNCHANGED copy
  /\ twin' = IF twin = NoTwin THEN twin ELSE emplace(twin, hash, S(slot))

InsertEmplaced(slot) ==
  /\ status = "ready"
  /\ entry[slot].st = "emplaced"
  /\ IF ~NDEBUG /\ ~emplacedAsserts(This, S(slot)) THEN Abort
     ELSE /\ Becomes(insertEmplaced(This, S(slot)))
          /\ entry' = [entry EXCEPT ![slot].st = "linked"]
          /\ linkOrder' = <<slot>> \o linkOrder
          /\ lastOp' = [op |-> "insertEmplaced", slot |-> slot, at |-> <<0, 0>>]
          /\ UNCHANGED <<Config, status>>
  /\ UNCHANGED copy
  /\ twin' = IF twin = NoTwin THEN twin ELSE insertEmplaced(twin, S(slot))

Next ==
  \/ \E hash \in Hashes, slot \in Slots : Insert(hash, slot)
  \/ \E slot \in Slots : Remove(slot)
  \/ Clear
  \/ \E hash \in Hashes, slot \in Slots : Emplace(hash, slot)
  \/ \E slot \in Slots : InsertEmplaced(slot)

Spec == Init /\ [][Next]_vars

(***************************************************************************)
(* What the queries yield, as sequences of slots (Int); -1 stands for a    *)
(* walk that does not end.                                                 *)
(***************************************************************************)
ThisNext ==
  [m_bucketCount |-> m_bucketCount', m_nodeCount |-> m_nodeCount',
   m_bucketList |-> m_bucketList', m_nodeList |-> m_nodeList']

Fuel(c) == Val(c.m_nodeCount) + 1

Slots_(walk) == [i \in 1..Len(walk) |-> Val(walk[i])]

\* find(hash), *it, ++it, ... until the cursor is invalid
FindSlots(c, hash) == Slots_(searchWalk(c, find(c, hash), Fuel(c)))

\* findEmplaced(slot), *it, ++it, ... until the cursor is invalid
FindEmplacedSlots(c, slot) == Slots_(searchWalk(c, findEmplaced(c, S(slot)), Fuel(c)))

\* begin(), *it, ++it, ... until the cursor is invalid
GlobalSlots(c) == Slots_(globalWalk(c, begin(c), Fuel(c)))

\* localBegin(bucket), *it, ++it, ... until the cursor is invalid
LocalSlots(c, bucket) == Slots_(localWalk(c, localBegin(c, bucket), Fuel(c)))

Range(seq) == {seq[i] : i \in 1..Len(seq)}

NoRepeat(seq) == \A i, j \in 1..Len(seq) : seq[i] = seq[j] => i = j

Linked == {s \in DOMAIN entry : entry[s].st = "linked"}

Emplaced == {s \in DOMAIN entry : entry[s].st = "emplaced"}

\* low(hash) mod bucketCount
BucketOf(hash) == Rem(low(hash), Val(m_bucketCount))

\* both hash parts agree
SameParts(h1, h2) == BucketOf(h1) = BucketOf(h2) /\ high(h1) = high(h2)

\* the linked entries whose insertion hash has the parts of hash
Group(hash) == {s \in Linked : SameParts(entry[s].hash, hash)}

Ready == status = "ready"

RemoveStep(s) ==
  entry[s].st = "linked" /\ lastOp'.op = "remove" /\ lastOp'.slot = s

C2_RemovePost(s) ==
  /\ status' = "ready"
  /\ \A h \in QueryHashes : s \notin Range(FindSlots(ThisNext, h))
  /\ \A t \in Linked \ {s} : t \in Range(FindSlots(ThisNext, entry[t].hash))
  /\ \A b \in Buckets : Chain(ThisNext, b) = Remaining(Chain(This, b), s)

C2_RemoveUnlinksOnly ==
  [][\A s \in Slots : RemoveStep(s) => C2_RemovePost(s)]_vars

\* the last call removed the middle node of a chain of three
C2_Witness ==
  Ready /\ lastOp.op = "remove" /\ lastOp.at = <<2, 3>>

(***************************************************************************)
(* C3  The global cursor from begin() visits every linked entry exactly    *)
(* once and nothing else, and the exhausted cursor equals end().           *)
(***************************************************************************)
\* AbstractIterator::operator==
IteratorEq(a, b) == a.pos = b.pos

RECURSIVE globalStop(_, _, _)
\* the Iterator after the advances of globalWalk
globalStop(c, it, fuel) ==
  IF ~Valid(it.pos) \/ fuel = 0 THEN it
  ELSE globalStop(c, IteratorInc(c, it), fuel - 1)

C3_GlobalCursorVisitsAll ==
  Ready =>
    /\ NoRepeat(GlobalSlots(This))
    /\ Range(GlobalSlots(This)) = Linked
    /\ Len(GlobalSlots(This)) = Cardinality(Linked)
    /\ IteratorEq(globalStop(This, begin(This), Fuel(This)), end(This))

\* three linked entries in two buckets, the buckets behind them empty
C3_Witness ==
  /\ Ready
  /\ Cardinality(Linked) = 3
  /\ Len(GlobalSlots(This)) = 3
  /\ Len(Chain(This, 0)) = 2
  /\ Len(Chain(This, 1)) = 1
  /\ \A b \in Buckets : b > 1 => Len(Chain(This, b)) = 0

(***************************************************************************)
(* C4  emplace(h, s) followed later by insertEmplaced(s) leaves the        *)
(* container exactly as insert(h, s) made at the moment of                 *)
(* insertEmplaced(s) would.                                                *)
(***************************************************************************)
InsertEmplacedStep(s) ==
  entry[s].st = "emplaced" /\ entry'[s].st = "linked"

C4_TwoPhaseIsInsert ==
  [][\A s \in Slots :
       InsertEmplacedStep(s) => ThisNext = insert(This, entry[s].hash, S(s))]_vars

\* insertEmplaced has just pushed a slot in front of an entry linked before it
C4_Witness ==
  /\ Ready
  /\ lastOp.op = "insertEmplaced"
  /\ \E b \in Buckets :
       /\ Len(Chain(This, b)) >= 2
       /\ Chain(This, b)[1] = lastOp.slot
       /\ b # 0

(***************************************************************************)
(* C5  For an emplaced, not yet linked slot s with hash h, findEmplaced(s) *)
(* yields what find(h) yields: the linked entries of the group of h, never *)
(* s and never another emplaced slot.                                      *)
(***************************************************************************)
C5_FindEmplacedIsFind ==
  Ready =>
    \A s \in Emplaced :
      /\ FindEmplacedSlots(This, s) = FindSlots(This, entry[s].hash)
      /\ Range(FindEmplacedSlots(This, s)) = Group(entry[s].hash)
      /\ Range(FindEmplacedSlots(This, s)) \cap Emplaced = {}

\* two slots emplaced under the hash of a linked entry
C5_Witness ==
  /\ Ready
  /\ \E s, t \in Emplaced :
       /\ s # t
       /\ entry[s].hash = entry[t].hash
       /\ Len(FindEmplacedSlots(This, s)) = 1
       /\ Len(FindEmplacedSlots(This, t)) = 1

(***************************************************************************)
(* C6  An emplaced, not yet linked slot is yielded by no find, by no       *)
(* traversal from begin() and by no localBegin(b) traversal, and emplace   *)
(* changes no bucket head, no other node and no result of these queries.   *)
(***************************************************************************)
C6_Invisible ==
  Ready =>
    \A s \in Emplaced :
      /\ \A h \in QueryHashes : s \notin Range(FindSlots(This, h))
      /\ s \notin Range(GlobalSlots(This))
      /\ \A b \in Buckets : s \notin Range(LocalSlots(This, b))

EmplaceStep(s) ==
  entry[s].st = "free" /\ entry'[s].st = "emplaced"

C6_EmplaceFrame(s) ==
  /\ m_bucketList' = m_bucketList
  /\ \A t \in Slots \ {s} : m_nodeList'[t] = m_nodeList[t]
  /\ \A h \in QueryHashes : FindSlots(ThisNext, h) = FindSlots(This, h)
  /\ GlobalSlots(ThisNext) = GlobalSlots(This)
  /\ \A b \in Buckets : LocalSlots(ThisNext, b) = LocalSlots(This, b)

C6_EmplacedIsInvisible ==
  /\ []C6_Invisible
  /\ [][\A s \in Slots : EmplaceStep(s) => C6_EmplaceFrame(s)]_vars

\* a slot has just been emplaced under the hash of a linked entry
C6_Witness ==
  /\ Ready
  /\ lastOp.op = "emplace"
  /\ entry[lastOp.slot].st = "emplaced"
  /\ Group(entry[lastOp.slot].hash) # {}

(***************************************************************************)
(* C7  Last in, first out: every chain lists its entries from the most     *)
(* recently linked to the oldest, and so does find(h) for the group of h.  *)
(***************************************************************************)
C7_LastInFirstOut ==
  Ready =>
    /\ \A b \in Buckets :
         Chain(This, b) =
           SelectSeq(linkOrder, LAMBDA s : BucketOf(entry[s].hash) = b)
    /\ \A h \in QueryHashes :
         FindSlots(This, h) = SelectSeq(linkOrder, LAMBDA s : s \in Group(h))

\* slots 1, 0, 2 inserted in that order under hash 0
C7_Witness ==
  /\ Ready
  /\ linkOrder = <<2, 0, 1>>
  /\ \A s \in Slots : entry[s].hash = Hash0
  /\ FindSlots(This, Hash0) = <<2, 0, 1>>

(***************************************************************************)
(* C8  clear() empties the container: afterwards find is invalid for every *)
(* hash and begin() is invalid; nodes() and buckets() are unchanged.       *)
(***************************************************************************)
C8_ClearPost ==
  /\ \A h \in QueryHashes : ~Valid(find(ThisNext, h))
  /\ ~Valid(begin(ThisNext).pos)
  /\ m_nodeCount' = m_nodeCount
  /\ m_bucketCount' = m_bucketCount

C8_ClearEmpties == [][Clear => C8_ClearPost]_vars

\* the last call was a clear of a container holding three entries
C8_Witness ==
  Ready /\ lastOp.op = "clear" /\ lastOp.at[1] = 3

(***************************************************************************)
(* remove called for a pair that is no live entry                          *)
(***************************************************************************)
\* remove(hash, slot) where slot is not linked under a hash with the parts of hash.
\* A call that did change the container leaves it in no state the caller
\* accounts for: the run is followed no further ("broken").
RemoveAbsent(hash, slot) ==
  /\ status = "ready"
  /\ ~(entry[slot].st = "linked" /\ SameParts(entry[slot].hash, hash))
  /\ LET r == remove(This, hash, S(slot))
     IN /\ Becomes(r.c)
        /\ status' = IF r.hang THEN "hang"
                      ELSE IF r.c # This THEN "broken"
                      ELSE status
  /\ lastOp' = [op |-> "removeAbsent", slot |-> slot, at |-> <<0, 0>>]
  /\ UNCHANGED <<Config, entry, linkOrder>>
  /\ UNCHANGED copy
  /\ twin' = IF twin = NoTwin THEN twin ELSE removeBuilt(TRUE, twin, hash, S(slot)).c

\* the builds and the capacity the absent removes are exercised on
BuildsAny == {<<4, 4, FALSE>>, <<4, 4, TRUE>>}

InitAny ==
  /\ Init
  /\ <<sizeType, hashType, NDEBUG>> \in BuildsAny
  /\ Val(m_nodeCount) < MaxNodes

NextAny ==
  \/ Next
  \/ \E hash \in Hashes, slot \in Slots : RemoveAbsent(hash, slot)

SpecAny == InitAny /\ [][NextAny]_vars

(***************************************************************************)
(* C9  remove(hash, slot) of a pair that is no live entry changes nothing: *)
(* every chain and every result of find, begin and localBegin is as        *)
(* before the call.                                                        *)
(***************************************************************************)
RemoveAbsentStep == lastOp'.op = "removeAbsent" /\ lastOp' # lastOp

C9_Unchanged ==
  /\ \A b \in Buckets : Chain(ThisNext, b) = Chain(This, b)
  /\ \A h \in QueryHashes : FindSlots(ThisNext, h) = FindSlots(This, h)
  /\ GlobalSlots(ThisNext) = GlobalSlots(This)
  /\ \A b \in Buckets : LocalSlots(ThisNext, b) = LocalSlots(This, b)

C9_RemoveAbsentIsNoOp == [][RemoveAbsentStep => C9_Unchanged]_vars

(***************************************************************************)
(* Construction alone: every instantiation of the tests, entry counts      *)
(* around the limits.  lastOp.at holds the entry count asked for.          *)
(***************************************************************************)
AllBuilds ==
  {<<4, 4>>, <<4, 2>>, <<1, 1>>, <<1, 2>>, <<1, 4>>, <<2, 1>>, <<2, 2>>, <<2, 4>>,
   <<4, 1>>, <<8, 1>>, <<8, 2>>, <<8, 4>>}

\* floor(max / 2) of a k-byte unsigned type, as a size_t
HalfMax(k) ==
  [i \in 1..SizeT |-> IF i < k THEN 255 ELSE IF i = k THEN 127 ELSE 0]

\* x - 1 and x + 1 for a size_t x whose low byte allows it
Pred(x) == [x EXCEPT ![1] = @ - 1]
Succ(x) == [x EXCEPT ![1] = @ + 1]

\* 2^60: from here on 2 * entries buckets of 8 bytes are no size_t
TwoTo60 == [i \in 1..SizeT |-> IF i = SizeT THEN 16 ELSE 0]

\* 2^60 - 1
TwoTo60Less1 == [i \in 1..SizeT |-> IF i = SizeT THEN 15 ELSE 255]

EntryCounts(k) ==
  {FromNat(n, SizeT) : n \in 0..MaxNodes}
  \cup {Pred(HalfMax(k)), HalfMax(k),
        [HalfMax(k) EXCEPT ![k] = 128],
        [Zero(SizeT) EXCEPT ![k] = 191],
        Cast(Max(k), SizeT), Max(SizeT),
        TwoTo60Less1, TwoTo60}

NotConstructed == <<>>

InitCtor ==
  /\ \E b \in AllBuilds : sizeType = b[1] /\ hashType = b[2]
  /\ NDEBUG \in BOOLEAN
  /\ status = "new"
  /\ m_bucketCount = NotConstructed
  /\ m_nodeCount = NotConstructed
  /\ m_bucketList = NotConstructed
  /\ m_nodeList = NotConstructed
  /\ entry = <<>>
  /\ linkOrder = <<>>
  /\ lastOp = [op |-> "none", slot |-> -1, at |-> <<>>]
  /\ copy = NoCopy
  /\ twin = NoTwin

\* TypeParam container(entries)
Create(entries) ==
  /\ status = "new"
  /\ LET r == Construct(entries)
     IN IF r.threw # ""
        THEN /\ status' = r.threw
             /\ UNCHANGED <<Members, entry>>
        ELSE /\ status' = "ready"
             /\ Becomes(r.c)
             /\ entry' = IF Enumerated(r.c.m_nodeCount)
                          THEN [s \in 0..(Val(r.c.m_nodeCount) - 1) |-> Free]
                          ELSE <<>>
  /\ lastOp' = [op |-> "create", slot |-> -1, at |-> entries]
  /\ UNCHANGED <<Config, linkOrder>>
  /\ UNCHANGED copy
  /\ UNCHANGED twin

NextCtor == \E entries \in EntryCounts(sizeType) : Create(entries)

SpecCtor == InitCtor /\ [][NextCtor]_vars

(***************************************************************************)
(* C10  Construction with entry count e fails with the capacity error      *)
(* exactly when e >= floor(slotWidth::max / 2), for every slot width, and  *)
(* a failed construction leaves no container.  As claimed: it succeeds for *)
(* every smaller e.  As amended: for a smaller e it succeeds unless the    *)
(* arrays cannot be allocated, which is certain for 64-bit slots from      *)
(* e = 2^60 on.                                                            *)
(***************************************************************************)
Created == status # "new"

AtLimit == Geq(lastOp.at, HalfMax(sizeType))

C10_CapacityErrorAtLimit ==
  Created =>
    /\ status = "runtime_error" <=> AtLimit
    /\ status # "ready" => Members = <<NotConstructed, NotConstructed,
                                        NotConstructed, NotConstructed>>

Junk == {SENTINEL, Zero(sizeType)}

\* begin(), as [it |-> the Iterator returned, outside |-> a cell outside the
\* bucket array was read]
beginReads(c, junk) ==
  IF c.m_bucketCount = Zero(sizeType)
  THEN \* m_bucketList[0] is read before bucket is compared with m_bucketCount;
       \* with junk = SENTINEL in every cell the counter runs until it wraps to 0
       [it |-> IF junk # SENTINEL THEN Iterator(junk, 0) ELSE end(c),
        outside |-> TRUE]
  ELSE IF Enumerated(c.m_bucketCount)
  THEN [it |-> begin(c), outside |-> FALSE]
  ELSE \* every cell holds c.m_bucketList.fill: the loop stops inside the array
       [it |-> IF c.m_bucketList.fill.first = SENTINEL THEN end(c)
               ELSE Iterator(c.m_bucketList.fill.first, 0),
        outside |-> FALSE]

\* container.begin() right after TypeParam container(entries)
Begin(junk) ==
  /\ status = "ready"
  /\ lastOp.op = "create"
  /\ lastOp' = [op |-> "begin", slot |-> -1,
                at |-> [entries |-> lastOp.at, r |-> beginReads(This, junk)]]
  /\ UNCHANGED <<Config, status, Members, entry, linkOrder>>
  /\ UNCHANGED copy
  /\ UNCHANGED twin

NextFresh ==
  \/ NextCtor
  \/ \E junk \in Junk : Begin(junk)

SpecFresh == InitCtor /\ [][NextFresh]_vars

(***************************************************************************)
(* C11  A freshly constructed container of any capacity n >= 0 is empty    *)
(* and iterable: begin() is invalid and equal to end(), and computing it   *)
(* reads no cell outside the bucket array.                                 *)
(***************************************************************************)
C11_FreshIsIterable ==
  lastOp.op = "begin" =>
    /\ ~Valid(lastOp.at.r.it.pos)
    /\ IteratorEq(lastOp.at.r.it, end(This))
    /\ ~lastOp.at.r.outside

(***************************************************************************)
(* C12  The global cursor enumerates in ascending bucket index and, within *)
(* one bucket, the most recently linked entry first; a traversal reads the *)
(* container only, so that two traversals without a mutation in between    *)
(* yield the same sequence.                                                *)
(***************************************************************************)
RECURSIVE ByBucket(_)
\* the linked slots by ascending bucket, most recently linked first within a bucket
ByBucket(b) ==
  IF b >= Val(m_bucketCount) THEN <<>>
  ELSE SelectSeq(linkOrder, LAMBDA s : BucketOf(entry[s].hash) = b) \o ByBucket(b + 1)

C12_GlobalOrder ==
  Ready => GlobalSlots(This) = ByBucket(0)

\* slot 1 alone in bucket 0, slot 2 linked after slot 0 in bucket 1
C12_Witness ==
  /\ Ready
  /\ linkOrder = <<2, 1, 0>>
  /\ GlobalSlots(This) = <<1, 2, 0>>

(***************************************************************************)
(* C13  For every bucket b the bucket-scoped cursor localBegin(b),         *)
(* advanced until invalid, yields exactly the chain of bucket b from head  *)
(* to tail and no entry of another bucket; it is invalid at once for an    *)
(* empty bucket, and the exhausted cursor equals localEnd().               *)
(***************************************************************************)
RECURSIVE localStop(_, _, _)
\* the LocalIterator after the advances of localWalk
localStop(c, it, fuel) ==
  IF ~Valid(it.pos) \/ fuel = 0 THEN it
  ELSE localStop(c, LocalIteratorInc(c, it), fuel - 1)

C13_LocalCursorIsChain ==
  Ready =>
    \A b \in Buckets :
      /\ LocalSlots(This, b) = Chain(This, b)
      /\ \A i \in 1..Len(LocalSlots(This, b)) :
           BucketOf(entry[LocalSlots(This, b)[i]].hash) = b
      /\ (Chain(This, b) = <<>> => ~Valid(localBegin(This, b).pos))
      /\ IteratorEq(localStop(This, localBegin(This, b), Fuel(This)), localEnd(This))

\* two entries in bucket 0 and a non-empty bucket behind it
C13_Witness ==
  /\ Ready
  /\ Len(LocalSlots(This, 0)) = 2
  /\ Len(Chain(This, 1)) = 1
  /\ Val(m_bucketCount) > 2

(***************************************************************************)
(* Copy construction.  copy holds the copy-constructed container: an array *)
(* of it is [own |-> its storage is its own, cells |-> the cells of that   *)
(* storage]; an array that is not its own is the storage of the source,    *)
(* read and written through the member of the source.  copy.entry and      *)
(* copy.linkOrder are the caller's record of the copy, copy.steps counts   *)
(* the calls made since the copy.                                          *)
(***************************************************************************)
\* calls made on the two containers after the copy
MaxAfterCopy == 2

\* mutant of copyArray: the storage of the source is handed on
copyArrayShares(reference, size) == [own |-> FALSE, cells |-> <<>>]

\* copyArray: std::make_unique<T[]>(size), then std::copy_n
copyArray(reference, size) ==
  [own |-> TRUE,
   cells |-> [i \in DOMAIN MakeArray(size, reference[0]) |-> reference[i]]]

\* GenericHashContainer(const GenericHashContainer &other)
CopyConstruct(other) ==
  [m_bucketCount |-> other.m_bucketCount,
   m_nodeCount |-> other.m_nodeCount,
   m_bucketList |-> copyArray(other.m_bucketList, other.m_bucketCount),
   m_nodeList |-> copyArray(other.m_nodeList, other.m_nodeCount)]

\* the members of a copy as a container value, given the members of its source
Deref(k, source) ==
  [m_bucketCount |-> k.m_bucketCount,
   m_nodeCount |-> k.m_nodeCount,
   m_bucketList |-> IF k.m_bucketList.own THEN k.m_bucketList.cells
                    ELSE source.m_bucketList,
   m_nodeList |-> IF k.m_nodeList.own THEN k.m_nodeList.cells
                  ELSE source.m_nodeList]

\* the copy
That == Deref(copy.c, This)

Targets == {"original", "copy"}

Target(t) == IF t = "original" THEN This ELSE That

EntryOf(t) == IF t = "original" THEN entry ELSE copy.entry

OrderOf(t) == IF t = "original" THEN linkOrder ELSE copy.linkOrder

\* the members of target t become c; e and order are the caller's new record of t
Store(t, c, e, order) ==
  /\ Becomes(IF t = "original" THEN c
             ELSE [This EXCEPT
                     !.m_bucketList = IF copy.c.m_bucketList.own THEN @
                                      ELSE c.m_bucketList,
                     !.m_nodeList = IF copy.c.m_nodeList.own THEN @
                                    ELSE c.m_nodeList])
  /\ entry' = IF t = "original" THEN e ELSE entry
  /\ linkOrder' = IF t = "original" THEN order ELSE linkOrder
  /\ copy' = [c |-> IF t = "original" THEN copy.c
                    ELSE [copy.c EXCEPT
                            !.m_bucketList.cells =
                               IF copy.c.m_bucketList.own THEN c.m_bucketList ELSE @,
                            !.m_nodeList.cells =
                               IF copy.c.m_nodeList.own THEN c.m_nodeList ELSE @],
              entry |-> IF t = "original" THEN copy.entry ELSE e,
              linkOrder |-> IF t = "original" THEN copy.linkOrder ELSE order,
              steps |-> copy.steps + 1]
  /\ UNCHANGED twin

AbortOn(t) ==
  /\ status' = "abort"
  /\ lastOp' = [op |-> "abort", slot |-> -1, at |-> t]
  /\ UNCHANGED <<Config, Members, entry, linkOrder, copy, twin>>

\* TypeParam other(container)
Copy ==
  /\ status = "ready"
  /\ copy = NoCopy
  /\ copy' = [c |-> CopyConstruct(This), entry |-> entry,
              linkOrder |-> linkOrder, steps |-> 0]
  /\ status' = "copied"
  /\ lastOp' = [op |-> "copy", slot |-> -1, at |-> "copy"]
  /\ UNCHANGED <<Config, Members, entry, linkOrder>>
  /\ UNCHANGED twin

AfterCopy == status = "copied" /\ copy.steps < MaxAfterCopy

InsertOn(t, hash, slot) ==
  /\ AfterCopy
  /\ EntryOf(t)[slot].st = "free"
  /\ IF ~NDEBUG /\ ~insertAsserts(Target(t), S(slot)) THEN AbortOn(t)
     ELSE /\ Store(t, insert(Target(t), hash, S(slot)),
                   [EntryOf(t) EXCEPT ![slot] = [st |-> "linked", hash |-> hash]],
                   <<slot>> \o OrderOf(t))
          /\ lastOp' = [op |-> "insert", slot |-> slot, at |-> t]
          /\ UNCHANGED <<Config, status>>

RemoveOn(t, slot) ==
  /\ AfterCopy
  /\ EntryOf(t)[slot].st = "linked"
  /\ LET r == remove(Target(t), EntryOf(t)[slot].hash, S(slot))
     IN /\ Store(t, r.c, [EntryOf(t) EXCEPT ![slot] = Free],
                 Remaining(OrderOf(t), slot))
        /\ status' = IF r.hang THEN "hang" ELSE status
  /\ lastOp' = [op |-> "remove", slot |-> slot, at |-> t]
  /\ UNCHANGED Config

ClearOn(t) ==
  /\ AfterCopy
  /\ Store(t, clear(Target(t)), [s \in DOMAIN EntryOf(t) |-> Free], <<>>)
  /\ lastOp' = [op |-> "clear", slot |-> -1, at |-> t]
  /\ UNCHANGED <<Config, status>>

EmplaceOn(t, hash, slot) ==
  /\ AfterCopy
  /\ EntryOf(t)[slot].st = "free"
  /\ IF ~NDEBUG /\ ~emplaceAsserts(Target(t), S(slot)) THEN AbortOn(t)
     ELSE /\ Store(t, emplace(Target(t), hash, S(slot)),
                   [EntryOf(t) EXCEPT ![slot] = [st |-> "emplaced", hash |-> hash]],
                   OrderOf(t))
          /\ lastOp' = [op |-> "emplace", slot |-> slot, at |-> t]
          /\ UNCHANGED <<Config, status>>

InsertEmplacedOn(t, slot) ==
  /\ AfterCopy
  /\ EntryOf(t)[slot].st = "emplaced"
  /\ IF ~NDEBUG /\ ~emplacedAsserts(Target(t), S(slot)) THEN AbortOn(t)
     ELSE /\ Store(t, insertEmplaced(Target(t), S(slot)),
                   [EntryOf(t) EXCEPT ![slot].st = "linked"],
                   <<slot>> \o OrderOf(t))
          /\ lastOp' = [op |-> "insertEmplaced", slot |-> slot, at |-> t]
          /\ UNCHANGED <<Config, status>>

NextCopy ==
  \/ Next
  \/ Copy
  \/ \E t \in Targets, hash \in Hashes, slot \in Slots : InsertOn(t, hash, slot)
  \/ \E t \in Targets, slot \in Slots : RemoveOn(t, slot)
  \/ \E t \in Targets : ClearOn(t)
  \/ \E t \in Targets, hash \in Hashes, slot \in Slots : EmplaceOn(t, hash, slot)
  \/ \E t \in Targets, slot \in Slots : InsertEmplacedOn(t, slot)

SpecCopy == InitAny /\ [][NextCopy]_vars

(***************************************************************************)
(* C14  A copy-constructed container is an independent deep copy: right    *)
(* after the copy find, begin and localBegin give on the copy what they    *)
(* give on the original, and every later insert, remove, emplace,          *)
(* insertEmplaced or clear on one of the two leaves every node and every   *)
(* bucket of the other unchanged.                                          *)
(***************************************************************************)
\* the copy after the step
ThatNext == Deref(copy'.c, ThisNext)

C14_SameAnswers ==
  lastOp.op = "copy" =>
    /\ \A h \in QueryHashes : FindSlots(That, h) = FindSlots(This, h)
    /\ GlobalSlots(That) = GlobalSlots(This)
    /\ \A b \in Buckets : LocalSlots(That, b) = LocalSlots(This, b)
    /\ That = This

C14_Frame ==
  (status = "copied" /\ lastOp' # lastOp) =>
    /\ lastOp'.at = "original" => ThatNext = That
    /\ lastOp'.at = "copy" => ThisNext = This

C14_CopyIsIndependent ==
  /\ []C14_SameAnswers
  /\ [][C14_Frame]_vars

\* both containers were changed after the copy and now differ, neither is empty
C14_Witness ==
  /\ status = "copied"
  /\ copy.steps = 2
  /\ copy.entry # entry
  /\ GlobalSlots(This) # <<>>
  /\ GlobalSlots(That) # <<>>
  /\ GlobalSlots(This) # GlobalSlots(That)
  /\ Cardinality(Linked) = 1

(***************************************************************************)
(* C15  Chain well-formedness: in every state reached by insert, remove of *)
(* live pairs, emplace, insertEmplaced and clear within their              *)
(* preconditions, every bucket chain is acyclic and ends in SENTINEL, no   *)
(* node is in two chains, every chained slot is below nodeCount, every     *)
(* chained node is in the bucket of the hash it was inserted or emplaced   *)
(* with and stores the fragment of that hash, and the chained slots are    *)
(* exactly the slots linked and not removed or cleared since.              *)
(***************************************************************************)
\* the slots of all chains
Chained == UNION {Range(Chain(This, b)) : b \in Buckets}

C15_ChainsWellFormed ==
  Ready =>
    /\ \A b \in Buckets :
         /\ -1 \notin Range(Chain(This, b))
         /\ NoRepeat(Chain(This, b))
         /\ \A s \in Range(Chain(This, b)) :
              /\ s < Val(m_nodeCount)
              /\ s \in Linked
              /\ BucketOf(entry[s].hash) = b
              /\ m_nodeList[s].hash = high(entry[s].hash)
    /\ \A b1, b2 \in Buckets :
         b1 # b2 => Range(Chain(This, b1)) \cap Range(Chain(This, b2)) = {}
    /\ Chained = Linked

\* after a remove: one slot chained, one emplaced, one free again
C15_Witness ==
  /\ Ready
  /\ lastOp.op = "remove"
  /\ Cardinality(Chained) = 1
  /\ Emplaced # {}
  /\ \E s \in DOMAIN entry : entry[s].st = "free"

(***************************************************************************)
(* The loops, counted: the iterations of the chain walks and the cells of  *)
(* the bucket array probed.  A count above the fuel given stands for a     *)
(* loop that has not ended by then.                                        *)
(***************************************************************************)
RECURSIVE findNextSteps(_, _, _, _)
\* iterations of the while loop of findNext(hash, current)
findNextSteps(c, hash, current, fuel) ==
  IF current = SENTINEL THEN 0
  ELSE IF fuel = 0 THEN 1
  ELSE IF c.m_nodeList[Idx(current)].hash = hash THEN 1
  ELSE 1 + findNextSteps(c, hash, c.m_nodeList[Idx(current)].next, fuel - 1)

\* find(size_t hash)
findSteps(c, hash) ==
  findNextSteps(c, high(hash),
                c.m_bucketList[Rem(low(hash), Val(c.m_bucketCount))].first, Fuel(c))

\* SearchIterator::operator++ at position current
searchIncSteps(c, current) ==
  findNextSteps(c, c.m_nodeList[Idx(current)].hash,
                c.m_nodeList[Idx(current)].next, Fuel(c))

\* findEmplaced(pos)
findEmplacedSteps(c, pos) ==
  findNextSteps(c, c.m_nodeList[Idx(pos)].hash,
                c.m_bucketList[Idx(c.m_nodeList[Idx(pos)].next)].first, Fuel(c))

RECURSIVE removeScanSteps(_, _, _, _)
\* iterations of the while loop of remove
removeScanSteps(c, value, current, fuel) ==
  IF current = SENTINEL THEN 0
  ELSE IF fuel = 0 THEN 1
  ELSE LET c1 == IF c.m_nodeList[Idx(current)].next = value
                 THEN [c EXCEPT !.m_nodeList[Idx(current)].next =
                                   c.m_nodeList[Idx(value)].next]
                 ELSE c
       IN 1 + removeScanSteps(c1, value, c1.m_nodeList[Idx(current)].next, fuel - 1)

\* remove(hash, value)
removeSteps(c, hash, value) ==
  IF c.m_nodeList[Idx(value)].hash # high(hash) THEN 0
  ELSE LET current == c.m_bucketList[Rem(low(hash), Val(c.m_bucketCount))].first
       IN IF current = value THEN 0
          ELSE removeScanSteps(c, value, current, Fuel(c))

RECURSIVE beginProbes(_, _)
\* cells of m_bucketList read by the loop of begin()
beginProbes(c, bucket) ==
  IF c.m_bucketList[bucket].first = SENTINEL /\ bucket + 1 # Val(c.m_bucketCount)
  THEN 1 + beginProbes(c, bucket + 1)
  ELSE 1

RECURSIVE nextBucketProbes(_, _)
\* cells of m_bucketList read by the loop of nextElement, bucket already incremented
nextBucketProbes(c, bucket) ==
  IF bucket = Val(c.m_bucketCount) THEN 0
  ELSE IF c.m_bucketList[bucket].first # SENTINEL THEN 1
  ELSE 1 + nextBucketProbes(c, bucket + 1)

\* nextElement(current, bucket)
nextElementProbes(c, current, bucket) ==
  IF c.m_nodeList[Idx(current)].next # SENTINEL THEN 0
  ELSE nextBucketProbes(c, bucket + 1)

InsertOccupied(hash, slot) ==
  /\ status = "ready"
  /\ entry[slot].st # "free"
  /\ IF ~NDEBUG /\ ~insertAsserts(This, S(slot))
     THEN status' = "abort" /\ UNCHANGED Members
     ELSE status' = "broken" /\ Becomes(insert(This, hash, S(slot)))
  /\ lastOp' = [op |-> "insertOccupied", slot |-> slot, at |-> PlaceOf(slot)]
  /\ UNCHANGED <<Config, entry, linkOrder, copy, twin>>

\* emplace(hash, slot) on a slot that is linked or emplaced
EmplaceOccupied(hash, slot) ==
  /\ status = "ready"
  /\ entry[slot].st # "free"
  /\ IF ~NDEBUG /\ ~emplaceAsserts(This, S(slot))
     THEN status' = "abort" /\ UNCHANGED Members
     ELSE status' = "broken" /\ Becomes(emplace(This, hash, S(slot)))
  /\ lastOp' = [op |-> "emplaceOccupied", slot |-> slot, at |-> PlaceOf(slot)]
  /\ UNCHANGED <<Config, entry, linkOrder, copy, twin>>

\* insertEmplaced(slot) on a slot that is free or linked
InsertEmplacedOther(slot) ==
  /\ status = "ready"
  /\ entry[slot].st # "emplaced"
  /\ IF ~NDEBUG /\ ~emplacedAsserts(This, S(slot))
     THEN status' = "abort" /\ UNCHANGED Members
     ELSE status' = "broken" /\ Becomes(insertEmplaced(This, S(slot)))
  /\ lastOp' = [op |-> "insertEmplacedOther", slot |-> slot, at |-> PlaceOf(slot)]
  /\ UNCHANGED <<Config, entry, linkOrder, copy, twin>>

\* findEmplaced(slot) on a slot that is free or linked: past the assertions
\* m_nodeList[slot].next is read as a bucket index
FindEmplacedOther(slot) ==
  /\ status = "ready"
  /\ entry[slot].st # "emplaced"
  /\ status' = IF ~NDEBUG /\ ~emplacedAsserts(This, S(slot)) THEN "abort" ELSE "broken"
  /\ lastOp' = [op |-> "findEmplacedOther", slot |-> slot, at |-> PlaceOf(slot)]
  /\ UNCHANGED <<Config, Members, entry, linkOrder, copy, twin>>

InitMisuse == Init /\ ~NDEBUG

NextMisuse ==
  \/ Next
  \/ \E hash \in Hashes, slot \in Slots : InsertOccupied(hash, slot)
  \/ \E hash \in Hashes, slot \in Slots : EmplaceOccupied(hash, slot)
  \/ \E slot \in Slots : InsertEmplacedOther(slot)
  \/ \E slot \in Slots : FindEmplacedOther(slot)

SpecMisuse == InitMisuse /\ [][NextMisuse]_vars

\* the call was stopped by an assertion before anything was written
Caught == status' = "abort" /\ ThisNext = This

(***************************************************************************)
(* C17  In debug builds the assertions of insert and of emplace catch      *)
(* every call on an occupied slot (linked at any place of a chain, or      *)
(* emplaced), for every stored fragment including the all-ones fragment,   *)
(* before any node or bucket is modified.                                  *)
(***************************************************************************)
OccupiedStep ==
  status = "ready" /\ lastOp'.op \in {"insertOccupied", "emplaceOccupied"}

C17_OccupiedIsCaught == [][OccupiedStep => Caught]_vars

(***************************************************************************)
(* C18  In debug builds the assertions of insertEmplaced and findEmplaced  *)
(* catch every call on a slot that is not emplaced (never used, removed,   *)
(* or linked at any place of a chain), before any state is read as a       *)
(* bucket index or modified.                                               *)
(***************************************************************************)
NotEmplacedStep ==
  status = "ready" /\ lastOp'.op \in {"insertEmplacedOther", "findEmplacedOther"}

C18_NotEmplacedIsCaught == [][NotEmplacedStep => Caught]_vars

(***************************************************************************)
(* The debug build and the release build side by side: the container is    *)
(* that of a debug build, twin that of the release build of the same       *)
(* instantiation, and every call is made on both.                          *)
(***************************************************************************)
InitTwin ==
  /\ \E b \in Builds : sizeType = b[1] /\ hashType = b[2] /\ ~b[3]
  /\ NDEBUG = FALSE
  /\ status = "ready"
  /\ \E n \in 1..(MaxNodes - 1) :
       LET c == Construct(FromNat(n, SizeT)).c
       IN /\ m_bucketCount = c.m_bucketCount
          /\ m_nodeCount = c.m_nodeCount
          /\ m_bucketList = c.m_bucketList
          /\ m_nodeList = c.m_nodeList
          /\ entry = [s \in 0..(n - 1) |-> Free]
          /\ twin = ConstructBuilt(TRUE, FromNat(n, SizeT)).c
  /\ linkOrder = <<>>
  /\ lastOp = [op |-> "create", slot |-> -1, at |-> <<0, 0>>]
  /\ copy = NoCopy

SpecTwin == InitTwin /\ [][NextAny]_vars

(***************************************************************************)
(* C19  The sentinel poisoning of debug builds cannot be observed: for     *)
(* every sequence of calls in which no debug assertion fails, the debug    *)
(* and the release build give the same results of find, findEmplaced,      *)
(* begin and localBegin traversals after every step.                       *)
(***************************************************************************)
C19_BuildsAgree ==
  (twin # NoTwin /\ status \in {"ready", "broken"}) =>
    /\ \A h \in QueryHashes : FindSlots(This, h) = FindSlots(twin, h)
    /\ \A s \in Emplaced :
         emplacedAsserts(This, S(s)) =>
           FindEmplacedSlots(This, s) = FindEmplacedSlots(twin, s)
    /\ GlobalSlots(This) = GlobalSlots(twin)
    /\ \A b \in Buckets : LocalSlots(This, b) = LocalSlots(twin, b)

(***************************************************************************)
(* Bucket selection: every instantiation, one entry in slot 0, hashes      *)
(* below and above the range of each slot width.                           *)
(***************************************************************************)
\* 2^16 and 2^32: the smallest hashes outside 16-bit and 32-bit slots
HashTo16 == [i \in 1..SizeT |-> IF i = 3 THEN 1 ELSE 0]
HashTo32 == [i \in 1..SizeT |-> IF i = 5 THEN 1 ELSE 0]

SelectHashes == QueryHashes \cup {HashTo16, HashTo32}

InitSelect ==
  /\ \E b \in AllBuilds : sizeType = b[1] /\ hashType = b[2]
  /\ NDEBUG = FALSE
  /\ status = "ready"
  /\ \E n \in 1..MaxNodes :
       LET c == Construct(FromNat(n, SizeT)).c
       IN /\ m_bucketCount = c.m_bucketCount
          /\ m_nodeCount = c.m_nodeCount
          /\ m_bucketList = c.m_bucketList
          /\ m_nodeList = c.m_nodeList
          /\ entry = [s \in 0..(n - 1) |-> Free]
  /\ linkOrder = <<>>
  /\ lastOp = [op |-> "create", slot |-> -1, at |-> <<0, 0>>]
  /\ copy = NoCopy
  /\ twin = NoTwin

NextSelect ==
  \/ \E hash \in SelectHashes : Insert(hash, 0)
  \/ Remove(0)
  \/ \E hash \in SelectHashes : Emplace(hash, 0)
  \/ InsertEmplaced(0)

SpecSelect == InitSelect /\ [][NextSelect]_vars

(***************************************************************************)
(* C20  As claimed: for every 64-bit hash and every slot width the bucket  *)
(* that insert, emplace, find and remove select is hash mod bucketCount,   *)
(* the same for all four.  As amended: it is (hash mod 2^slotWidth) mod    *)
(* bucketCount, the same for all four, which is hash mod bucketCount for   *)
(* 64-bit slots.                                                           *)
(***************************************************************************)
\* hash mod bucketCount
HashMod(hash) == Rem(hash, Val(m_bucketCount))

\* (hash mod 2^slotWidth) mod bucketCount
CutHashMod(hash) == Rem([i \in 1..sizeType |-> hash[i]], Val(m_bucketCount))

\* the one entry, of hash g, is dealt with in bucket b by all four operations
SelectedBucket(g, b) ==
  /\ entry[0].st = "linked" =>
       /\ Chain(This, b) = <<0>>
       /\ FindSlots(This, g) = <<0>>
       /\ \A x \in Buckets : Chain(remove(This, g, S(0)).c, x) = <<>>
  /\ entry[0].st = "emplaced" =>
       /\ Val(m_nodeList[0].next) = b
       /\ Chain(insertEmplaced(This, S(0)), b) = <<0>>

C20_AsClaimed ==
  (Ready /\ entry[0].st # "free") =>
    SelectedBucket(entry[0].hash, HashMod(entry[0].hash))

C20_SameBucket ==
  (Ready /\ entry[0].st # "free") =>
    /\ SelectedBucket(entry[0].hash, CutHashMod(entry[0].hash))
    /\ sizeType = SizeT => CutHashMod(entry[0].hash) = HashMod(entry[0].hash)

\* 8-bit slots, 6 buckets, hash 256: bucket 0 is selected, 256 mod 6 is 4
C20_Witness ==
  /\ Ready
  /\ sizeType = 1
  /\ entry[0].st = "linked"
  /\ entry[0].hash = HashWrap
  /\ Chain(This, 0) = <<0>>
  /\ HashMod(HashWrap) = 4

(***************************************************************************)
(* A container from its construction on: every instantiation, every entry  *)
(* count of EntryCounts, then the calls of Next on it.                     *)
(***************************************************************************)
NextLife ==
  \/ NextCtor
  \/ Next

SpecLife == InitCtor /\ [][NextLife]_vars

\* the value emplace stores in m_nodeList[value].next
emplaceStash(c, hash) == FromNat(Rem(low(hash), Val(c.m_bucketCount)), sizeType)

(***************************************************************************)
(* C21  For every container constructed, bucketCount is exactly            *)
(* 2 * nodeCount without wraparound in the slot width, is below SENTINEL   *)
(* and stays as it is under every operation; so every slot and every       *)
(* bucket index that emplace stashes in next differs from SENTINEL, and an *)
(* emplaced node is never taken for an unoccupied one.                     *)
(***************************************************************************)
C21_Counts ==
  Ready =>
    /\ Cast(m_bucketCount, SizeT) = Mul(Cast(m_nodeCount, SizeT), bucketFactor)
    /\ Carry(m_nodeCount, bucketFactor, sizeType) = 0
    /\ m_bucketCount # SENTINEL
    /\ Geq(SENTINEL, m_bucketCount)
    /\ lastOp.op = "create" => Cast(m_nodeCount, SizeT) = lastOp.at
    /\ \A s \in Slots : S(s) # SENTINEL
    /\ (Small(m_bucketCount) /\ Val(m_bucketCount) > 0) =>
         \A h \in SelectHashes :
           /\ emplaceStash(This, h) # SENTINEL
           /\ Val(emplaceStash(This, h)) < Val(m_bucketCount)
    /\ \A s \in Emplaced :
         /\ m_nodeList[s].next # SENTINEL
         /\ m_nodeList[s].next = emplaceStash(This, entry[s].hash)
         /\ emplacedAsserts(This, S(s))
         /\ ~emplaceAsserts(This, S(s))
         /\ ~insertAsserts(This, S(s))

C21_Fixed ==
  Ready => (m_bucketCount' = m_bucketCount /\ m_nodeCount' = m_nodeCount)

C21_BucketCountBelowSentinel ==
  /\ []C21_Counts
  /\ [][C21_Fixed]_vars

\* 8-bit slots: a slot emplaced under the all-ones fragment beside a linked entry
C21_Witness ==
  /\ Ready
  /\ sizeType = 1
  /\ Linked # {}
  /\ \E s \in Emplaced : entry[s].hash = HashTop /\ Val(m_nodeList[s].next) = 0

(***************************************************************************)
(* C22  Insert/remove round trip: remove(h, s) of a live entry restores    *)
(* the state before its insert, so after inserting entries and removing    *)
(* all of them, in any order, every bucket is empty, find is invalid for   *)
(* every hash and every slot satisfies the precondition of insert again    *)
(* (in debug builds next and fragment are both sentinel), any number of    *)
(* times.                                                                  *)
(***************************************************************************)
FreeSlots == {s \in DOMAIN entry : entry[s].st = "free"}

\* insert(hash, slot); remove(hash, slot) leaves the buckets and the other
\* nodes as they were, and in a debug build the node of slot as well
C22_Undone(hash, slot) ==
  LET inserted == insert(This, hash, S(slot))
      r == remove(inserted, hash, S(slot))
  IN /\ find(inserted, hash) = S(slot)
     /\ ~r.hang
     /\ r.c.m_bucketList = m_bucketList
     /\ \A t \in Slots \ {slot} : r.c.m_nodeList[t] = m_nodeList[t]
     /\ ~NDEBUG => r.c = This
     /\ \A h \in QueryHashes : FindSlots(r.c, h) = FindSlots(This, h)

C22_InsertRemoveRoundTrip ==
  Ready =>
    /\ \A s \in FreeSlots :
         /\ ~NDEBUG => /\ insertAsserts(This, S(s))
                       /\ m_nodeList[s] = [hash |-> HASHMAX, next |-> SENTINEL]
         /\ \A hash \in Hashes : C22_Undone(hash, s)
    /\ Linked = {} =>
         /\ \A b \in Buckets : m_bucketList[b].first = SENTINEL
         /\ \A h \in QueryHashes : ~Valid(find(This, h))
         /\ GlobalSlots(This) = <<>>
    /\ (Linked = {} /\ Emplaced = {} /\ ~NDEBUG) => This = clear(This)

\* a release build: every slot has been linked, two of them in one chain, and
\* all of them have been removed, the head of that chain not last
C22_Witness ==
  /\ Ready
  /\ NDEBUG
  /\ Val(m_nodeCount) = MaxNodes
  /\ FreeSlots = Slots
  /\ lastOp.op = "remove"
  /\ \A s \in Slots : m_nodeList[s].hash # high(Hash0)
  /\ \E s, t \in Slots : s # t /\ m_nodeList[s].next = S(t) /\ lastOp.slot = t

(***************************************************************************)
(* C23  insert(hash, slot) on an unoccupied slot changes only the head of  *)
(* bucket low(hash) mod bucketCount and the node at slot: the new node's   *)
(* next is the old bucket head, the bucket head becomes slot, the node's   *)
(* fragment becomes high(hash), and every other bucket head and every      *)
(* other node (next and fragment) is unchanged.                            *)
(***************************************************************************)
InsertStep(s) ==
  entry[s].st = "free" /\ lastOp'.op = "insert" /\ lastOp'.slot = s

C23_InsertPost(s) ==
  LET hash == entry'[s].hash
      bucket == BucketOf(hash)
  IN /\ status' = "ready"
     /\ m_nodeList'[s].next = m_bucketList[bucket].first
     /\ m_nodeList'[s].hash = high(hash)
     /\ m_bucketList'[bucket].first = S(s)
     /\ \A b \in Buckets \ {bucket} : m_bucketList'[b] = m_bucketList[b]
     /\ \A t \in Slots \ {s} : m_nodeList'[t] = m_nodeList[t]
     /\ DOMAIN m_bucketList' = DOMAIN m_bucketList
     /\ DOMAIN m_nodeList' = DOMAIN m_nodeList
     /\ m_bucketCount' = m_bucketCount
     /\ m_nodeCount' = m_nodeCount

C23_InsertFrame ==
  [][\A s \in Slots : InsertStep(s) => C23_InsertPost(s)]_vars

\* the last call pushed a slot into bucket 1 in front of another entry, with
\* an entry linked in bucket 0
C23_Witness ==
  /\ Ready
  /\ lastOp.op = "insert"
  /\ Len(Chain(This, 1)) >= 2
  /\ Chain(This, 1)[1] = lastOp.slot
  /\ Len(Chain(This, 0)) >= 1

====
